---- MODULE Spec2Model ----
(***************************************************************************)
(* A model of the scootjs `compute` resource builder                       *)
(* (src/lib/resources/compute.js) and of the internal-event factory that   *)
(* src/test/events/ievent.test.js exercises.                               *)
(*                                                                         *)
(* Objects live in a heap and are named by their address (their index in   *)
(* `heap` or `events`), so that "the same object" is address equality and  *)
(* a connection that holds an address sees every later change of the       *)
(* object it points to.  A build script is a sequence of calls; `call` and *)
(* `ret` record the last call made and how it completed.                   *)
(***************************************************************************)
EXTENDS Integers, Sequences, FiniteSets, TLC

VARIABLES heap, events, uuidCalls, call, ret, calls

vars == <<heap, events, uuidCalls, call, ret, calls>>

\* The number of calls of a build script the model explores.
MaxCalls == 4

(***************************************************************************)
(* JavaScript values the callers pass: `undefined` and strings.  A string  *)
(* is the sequence of its characters.                                      *)
(***************************************************************************)
Undefined == [t |-> "undefined", s |-> <<>>]

Str(chars) == [t |-> "string", s |-> chars]

\* ToBoolean, as `assert(id, ...)` and `if (alias)` apply it.
Truthy(v) == v.t = "string" /\ v.s # <<>>

\* The kind tags of ../types.
Compute == "Compute"

InternalEvent == "InternalEvent"

Letters == {"a", "b", "c", "e", "f", "m", "n", "R"}

Digits == {"0", "1", "2"}

\* utils.validateId: the label is a non-empty run of letters and digits.
validateId(id) ==
  /\ id.t = "string"
  /\ id.s # <<>>
  /\ \A i \in 1..Len(id.s) : id.s[i] \in Letters \cup Digits

(***************************************************************************)
(* How a call completes.                                                   *)
(***************************************************************************)
NoValue == [k |-> "none", a |-> 0, err |-> "", msg |-> ""]

Normal == [k |-> "normal", a |-> 0, err |-> "", msg |-> ""]

Returned(kind, addr) == [k |-> kind, a |-> addr, err |-> "", msg |-> ""]

Thrown(err, msg) == [k |-> "throw", a |-> 0, err |-> err, msg |-> msg]

\* uuid(): the n-th call of the allocator returns the n-th fresh identifier.
uuid(n) == n + 1

(***************************************************************************)
(* The compute factory, compute(id, runtime).                              *)
(***************************************************************************)

\* A variant that validates the label before it asserts the arguments.
preconditions_validateFirst(id, runtime) ==
  IF ~validateId(id)
    THEN Thrown("InvalidIdentifier", "")
  ELSE IF ~Truthy(id)
    THEN Thrown("MissingArgument", "Failed to create compute object: missing id")
  ELSE IF ~Truthy(runtime)
    THEN Thrown("MissingArgument", "Failed to create compute object: missing runtime")
  ELSE NoValue

\* A variant that asserts the arguments and never validates the label.
preconditions_noValidate(id, runtime) ==
  IF ~Truthy(id)
    THEN Thrown("MissingArgument", "Failed to create compute object: missing id")
  ELSE IF ~Truthy(runtime)
    THEN Thrown("MissingArgument", "Failed to create compute object: missing runtime")
  ELSE NoValue

\* The two asserts and validateId(id), in the order the factory runs them.
preconditions(id, runtime) ==
  IF ~Truthy(id)
    THEN Thrown("MissingArgument", "Failed to create compute object: missing id")
  ELSE IF ~Truthy(runtime)
    THEN Thrown("MissingArgument", "Failed to create compute object: missing runtime")
  ELSE IF ~validateId(id)
    THEN Thrown("InvalidIdentifier", "")
  ELSE NoValue

\* An object with no own properties (environment: {}, tags: {}).
EmptyObject == [n \in {} |-> Undefined]

\* A variant that stores the two arguments in each other's field.
newSelf_swapped(id, runtime, instanceId) ==
  [meta   |-> [id |-> instanceId, type |-> Compute],
   config |-> [id          |-> runtime,
               runtime     |-> id,
               triggers    |-> <<>>,
               references  |-> <<>>,
               environment |-> [n \in {} |-> Undefined],
               tags        |-> [n \in {} |-> Undefined],
               vcs         |-> Undefined,
               code        |-> Undefined,
               description |-> Undefined],
   frozen |-> {},
   sealed |-> {}]

\* A variant that derives meta.id from the label instead of taking the
\* freshly allocated identifier.
newSelf_labelId(id, runtime, instanceId) ==
  [meta   |-> [id |-> Len(id.s), type |-> Compute],
   config |-> [id          |-> id,
               runtime     |-> runtime,
               triggers    |-> <<>>,
               references  |-> <<>>,
               environment |-> [n \in {} |-> Undefined],
               tags        |-> [n \in {} |-> Undefined],
               vcs         |-> Undefined,
               code        |-> Undefined,
               description |-> Undefined],
   frozen |-> {},
   sealed |-> {}]

\* The literal `self`: meta and config as the factory first builds them.
\* `frozen` and `sealed` are the property paths Object.freeze and utils.freeze
\* have locked: none yet.
newSelf(id, runtime, instanceId) ==
  [meta   |-> [id |-> instanceId, type |-> Compute],
   config |-> [id          |-> id,
               runtime     |-> runtime,
               triggers    |-> <<>>,
               references  |-> <<>>,
               environment |-> EmptyObject,
               tags        |-> EmptyObject,
               vcs         |-> Undefined,
               code        |-> Undefined,
               description |-> Undefined],
   frozen |-> {},
   sealed |-> {}]

\* Object.freeze(obj.meta): every own property of meta becomes read-only.
ObjectFreezeMeta(obj) == [obj EXCEPT !.frozen = @ \cup {"meta.id", "meta.type"}]

\* utils.freeze(obj, prop): the one property `path` is locked against writes.
freeze(obj, path) == [obj EXCEPT !.sealed = @ \cup {path}]

\* A variant that leaves config.id unlocked.
lockIdentity_noConfigId(self) == freeze(ObjectFreezeMeta(self), "meta")

\* Object.freeze(self.meta); freeze(self, 'meta'); freeze(self.config, 'id').
lockIdentity(self) ==
  freeze(freeze(ObjectFreezeMeta(self), "meta"), "config.id")

compute(id, runtime) ==
  LET pre == preconditions(id, runtime) IN
  /\ calls < MaxCalls
  /\ calls' = calls + 1
  /\ call' = [op |-> "compute", self |-> 0, args |-> <<id, runtime>>]
  /\ UNCHANGED events
  /\ IF pre.k = "throw"
       THEN /\ ret' = pre
            /\ UNCHANGED <<heap, uuidCalls>>
       ELSE /\ heap' = Append(heap, lockIdentity(newSelf(id, runtime, uuid(uuidCalls))))
            /\ uuidCalls' = uuidCalls + 1
            /\ ret' = Returned("resource", Len(heap) + 1)

(***************************************************************************)
(* The builders: the fluent methods Object.assign attaches to `self`.      *)
(* `self` is the address of the resource the method is called on.          *)
(***************************************************************************)

\* One more call of the build script: what was called, on what, with what.
called(op, self, args) ==
  /\ calls < MaxCalls
  /\ calls' = calls + 1
  /\ call' = [op |-> op, self |-> self, args |-> args]

\* A variant that returns the resource's config instead of the resource.
returnSelf_config(self) == Returned("config", self)

\* `return self`: the method hands back the object it was called on.
returnSelf(self) == Returned("resource", self)

\* obj[name] = value on a plain object: insert the entry or overwrite it.
put(obj, name, value) ==
  [n \in DOMAIN obj \cup {name} |-> IF n = name THEN value ELSE obj[n]]

\* A variant that puts the element at the front (unshift).
push_unshift(list, x) == <<x>> \o list

\* Array.prototype.push: the element goes to the end of the list.
push(list, x) == Append(list, x)

\* trigger().from(event).to(resource): the edge holds the two objects
\* themselves, here their addresses.
trigger(event, resource) == [from |-> event, to |-> resource]

\* ref(name).from(resource).to(target).allow(actions).
ref(name, resource, target, actions) ==
  [name |-> name, from |-> resource, to |-> target, allow |-> actions]

vcs(self, url) ==
  /\ called("vcs", self, <<url>>)
  /\ heap' = [heap EXCEPT ![self].config.vcs = url]
  /\ ret' = returnSelf(self)
  /\ UNCHANGED <<events, uuidCalls>>

code(self, content) ==
  /\ called("code", self, <<content>>)
  /\ heap' = [heap EXCEPT ![self].config.code = content]
  /\ ret' = returnSelf(self)
  /\ UNCHANGED <<events, uuidCalls>>

description(self, text) ==
  /\ called("description", self, <<text>>)
  /\ heap' = [heap EXCEPT ![self].config.description = text]
  /\ ret' = returnSelf(self)
  /\ UNCHANGED <<events, uuidCalls>>

env(self, name, value) ==
  /\ called("env", self, <<name, value>>)
  /\ heap' = [heap EXCEPT ![self].config.environment = put(@, name, value)]
  /\ ret' = returnSelf(self)
  /\ UNCHANGED <<events, uuidCalls>>

tag(self, key, value) ==
  /\ called("tag", self, <<key, value>>)
  /\ heap' = [heap EXCEPT ![self].config.tags = put(@, key, value)]
  /\ ret' = returnSelf(self)
  /\ UNCHANGED <<events, uuidCalls>>

\* A variant that builds the edge the other way round.
onTrigger_swapped(self, event) == trigger(self, event)

\* The edge `on` builds: from the event to this resource.
onTrigger(self, event) == trigger(event, self)

on(self, event) ==
  /\ called("on", self, <<event>>)
  /\ heap' = [heap EXCEPT ![self].config.triggers = push(@, onTrigger(self, event))]
  /\ ret' = returnSelf(self)
  /\ UNCHANGED <<events, uuidCalls>>

\* A variant that takes any string passed as alias, the empty one too.
refName_anyString(resourceId, alias) ==
  IF alias.t = "string" THEN alias ELSE Str(resourceId.s \o <<"R", "e", "f">>)

\* The name `use` gives the reference: resource.config.id + 'Ref', unless
\* a truthy alias replaces it.
refName(resourceId, alias) ==
  IF Truthy(alias) THEN alias ELSE Str(resourceId.s \o <<"R", "e", "f">>)

use(self, resource, actions, alias) ==
  /\ called("use", self, <<resource, actions, alias>>)
  /\ heap' = [heap EXCEPT ![self].config.references =
                push(@, ref(refName(heap[resource].config.id, alias),
                            self, resource, actions))]
  /\ ret' = returnSelf(self)
  /\ UNCHANGED <<events, uuidCalls>>

(***************************************************************************)
(* A caller's assignment to a property of a resource, `r.<path> = value`,  *)
(* made from strict-mode code or not.                                      *)
(***************************************************************************)

Paths == {"meta", "meta.id", "meta.type", "config.id", "config.runtime"}

\* The value the caller tries to store: never the one already there.
AssignedValue(path) ==
  CASE path = "meta"           -> [id |-> 0, type |-> "Other"]
    [] path = "meta.id"        -> 0
    [] path = "meta.type"      -> "Other"
    [] path = "config.id"      -> Str(<<"c">>)
    [] path = "config.runtime" -> Str(<<"m">>)

\* The object once the write went through.  A replaced meta is a new,
\* unfrozen object.
written(obj, path, value) ==
  CASE path = "meta"           -> [obj EXCEPT !.meta = value,
                                              !.frozen = @ \ {"meta.id", "meta.type"}]
    [] path = "meta.id"        -> [obj EXCEPT !.meta.id = value]
    [] path = "meta.type"      -> [obj EXCEPT !.meta.type = value]
    [] path = "config.id"      -> [obj EXCEPT !.config.id = value]
    [] path = "config.runtime" -> [obj EXCEPT !.config.runtime = value]

\* A write to a property utils.freeze locked fails.  A write to a property
\* of an Object.freeze'd object throws (a TypeError) in strict-mode code
\* and is dropped silently otherwise.  Any other write goes through.
assign(self, path, strict) ==
  /\ called("assign", self, <<path, strict>>)
  /\ UNCHANGED <<events, uuidCalls>>
  /\ IF path \in heap[self].sealed
       THEN /\ ret' = Thrown("ImmutableFieldError", "sealed")
            /\ UNCHANGED heap
     ELSE IF path \in heap[self].frozen
       THEN /\ ret' = IF strict THEN Thrown("ImmutableFieldError", "TypeError")
                                ELSE Normal
            /\ UNCHANGED heap
     ELSE /\ heap' = [heap EXCEPT ![self] = written(@, path, AssignedValue(path))]
          /\ ret' = Normal

(***************************************************************************)
(* The internal-event factory, ievent(name).                               *)
(***************************************************************************)

\* A variant that lets every name through.
eventPreconditions_none(name) == NoValue

\* The name goes through validateId.
eventPreconditions(name) ==
  IF ~validateId(name) THEN Thrown("InvalidIdentifier", "") ELSE NoValue

newEvent(name) == [meta |-> [type |-> InternalEvent], id |-> name]

ievent(name) ==
  LET pre == eventPreconditions(name) IN
  /\ called("ievent", 0, <<name>>)
  /\ UNCHANGED <<heap, uuidCalls>>
  /\ IF pre.k = "throw"
       THEN /\ ret' = pre
            /\ UNCHANGED events
       ELSE /\ events' = Append(events, newEvent(name))
            /\ ret' = Returned("event", Len(events) + 1)

(***************************************************************************)
(* The arguments the build scripts of the model pass.                      *)
(***************************************************************************)

BadLabel == Str(<<"a", "-", "b", " ", "c">>)

Labels == {Undefined, Str(<<>>), Str(<<"a">>), Str(<<"b", "1">>), BadLabel}

Runtimes == {Undefined, Str(<<>>), Str(<<"n">>)}

EventNames == {Str(<<"e">>), BadLabel}

Texts == {Str(<<"c">>)}

Keys == {"k"}

Values == {Str(<<"a">>), Str(<<"b">>)}

ActionLists == {<<"read">>, <<"read", "write">>}

Aliases == {Undefined, Str(<<>>), Str(<<"m">>)}

Init ==
  /\ heap = <<>>
  /\ events = <<>>
  /\ uuidCalls = 0
  /\ call = [op |-> "none", self |-> 0, args |-> <<>>]
  /\ ret = NoValue
  /\ calls = 0

Next ==
  \/ \E id \in Labels, runtime \in Runtimes : compute(id, runtime)
  \/ \E name \in EventNames : ievent(name)
  \/ \E self \in DOMAIN heap, text \in Texts : vcs(self, text)
  \/ \E self \in DOMAIN heap, text \in Texts : code(self, text)
  \/ \E self \in DOMAIN heap, text \in Texts : description(self, text)
  \/ \E self \in DOMAIN heap, name \in Keys, value \in Values : env(self, name, value)
  \/ \E self \in DOMAIN heap, key \in Keys, value \in Values : tag(self, key, value)
  \/ \E self \in DOMAIN heap, event \in DOMAIN events : on(self, event)
  \/ \E self \in DOMAIN heap, resource \in DOMAIN heap,
        actions \in ActionLists, alias \in Aliases : use(self, resource, actions, alias)
  \/ \E self \in DOMAIN heap, path \in Paths, strict \in BOOLEAN : assign(self, path, strict)

Spec == Init /\ [][Next]_vars

(***************************************************************************)
(* Properties.                                                             *)
(***************************************************************************)

\* The step just taken was a call of `op` (a call always counts).
Did(op) == calls' # calls /\ call'.op = op

IsPrefix(s, t) == Len(s) <= Len(t) /\ \A i \in 1..Len(s) : s[i] = t[i]

Last(s) == s[Len(s)]

\* C1: compute(L, runtime) with a grammar-valid label L and a non-empty
\* runtime returns a new resource whose config.id is L, whose meta.type is
\* the Compute tag, whose config.runtime is the runtime given, and whose
\* triggers, references, environment and tags are empty.
C1_ValidComputeBuildsResource ==
  (call.op = "compute" /\ validateId(call.args[1]) /\ Truthy(call.args[2])) =>
    /\ ret.k = "resource"
    /\ ret.a = Len(heap)
    /\ heap[ret.a].config.id = call.args[1]
    /\ heap[ret.a].meta.type = Compute
    /\ heap[ret.a].config.runtime = call.args[2]
    /\ heap[ret.a].config.triggers = <<>>
    /\ heap[ret.a].config.references = <<>>
    /\ DOMAIN heap[ret.a].config.environment = {}
    /\ DOMAIN heap[ret.a].config.tags = {}

C1_Witness ==
  /\ call.op = "compute"
  /\ call.args = <<Str(<<"b", "1">>), Str(<<"n">>)>>
  /\ ret.k = "resource"
  /\ Len(heap) = 2

\* C2: compute with an empty or absent label, or an empty or absent
\* runtime, fails with MissingArgument whatever the other argument is, and
\* builds no resource.
C2_MissingArgument ==
  /\ [](call.op = "compute" /\ (~Truthy(call.args[1]) \/ ~Truthy(call.args[2]))
          => ret.k = "throw" /\ ret.err = "MissingArgument")
  /\ [][Did("compute") /\ (~Truthy(call'.args[1]) \/ ~Truthy(call'.args[2]))
          => heap' = heap /\ uuidCalls' = uuidCalls]_vars

C2_Witness ==
  /\ call.op = "compute"
  /\ call.args = <<BadLabel, Str(<<>>)>>
  /\ ret.err = "MissingArgument"

\* C3: compute with a non-empty label that violates the identifier grammar
\* and a non-empty runtime fails with InvalidIdentifier, allocates no
\* identity and builds no object.
C3_InvalidIdentifier ==
  /\ [](call.op = "compute" /\ Truthy(call.args[1]) /\ ~validateId(call.args[1])
          /\ Truthy(call.args[2])
          => ret.k = "throw" /\ ret.err = "InvalidIdentifier")
  /\ [][Did("compute") /\ Truthy(call'.args[1]) /\ ~validateId(call'.args[1])
          /\ Truthy(call'.args[2])
          => heap' = heap /\ uuidCalls' = uuidCalls]_vars

C3_Witness ==
  /\ call.op = "compute"
  /\ call.args = <<BadLabel, Str(<<"n">>)>>
  /\ ret.err = "InvalidIdentifier"
  /\ Len(heap) = 1
  /\ uuidCalls = 1

\* C4: ievent(name) returns an event whose meta.type is the InternalEvent
\* tag when the name is grammar-valid, and fails with InvalidIdentifier,
\* creating no event, when it is not.
C4_EventFactory ==
  /\ [](call.op = "ievent" =>
          IF validateId(call.args[1])
            THEN /\ ret.k = "event"
                 /\ ret.a = Len(events)
                 /\ events[ret.a].meta.type = InternalEvent
            ELSE ret.k = "throw" /\ ret.err = "InvalidIdentifier")
  /\ [][Did("ievent") /\ ~validateId(call'.args[1]) => events' = events]_vars

C4_Witness ==
  /\ call.op = "ievent"
  /\ call.args = <<BadLabel>>
  /\ ret.err = "InvalidIdentifier"
  /\ Len(events) = 1

\* The reference r.use(t, a, alias) is to append when an alias counts as
\* provided exactly when `provided` holds of it.
ExpectedRef(self, provided) ==
  LET target == call'.args[1]
      alias  == call'.args[3]
  IN  [name  |-> IF provided
                   THEN alias
                   ELSE Str(heap[target].config.id.s \o <<"R", "e", "f">>),
       from  |-> self,
       to    |-> target,
       allow |-> call'.args[2]]

\* C5 as stated: use(t, a, alias) appends exactly one Reference from r to t
\* allowing a, named by the alias whenever one is passed (whatever its
\* value) and t.config.id + "Ref" when none is passed.
C5_AnyAliasNames ==
  [][Did("use") =>
       heap'[call'.self].config.references =
         Append(heap[call'.self].config.references,
                ExpectedRef(call'.self, call'.args[3].t # "undefined"))]_vars

\* C5 as amended: use(t, a, alias) appends exactly one Reference from r to t
\* allowing a, named by the alias when a non-empty alias is passed and
\* t.config.id + "Ref" when the alias is absent or the empty string.
C5_NonEmptyAliasNames ==
  [][Did("use") =>
       heap'[call'.self].config.references =
         Append(heap[call'.self].config.references,
                ExpectedRef(call'.self, call'.args[3].t = "string"
                                          /\ call'.args[3].s # <<>>))]_vars

C5_Witness ==
  /\ call.op = "use"
  /\ call.args[3] = Str(<<"m">>)
  /\ Len(heap[call.self].config.references) = 2
  /\ heap[call.self].config.references[1].name = Str(<<"b", "1", "R", "e", "f">>)
  /\ heap[call.self].config.references[2].name = Str(<<"m">>)

\* C6: r.on(e) lengthens r's triggers by exactly one, the new last element
\* being the trigger from the object e to the object r; every trigger in a
\* resource's list points to that very resource, so what it shows of the
\* resource is the resource's current configuration.
C6_OnAppendsLiveTrigger ==
  /\ [][Did("on") =>
          heap'[call'.self].config.triggers =
            Append(heap[call'.self].config.triggers,
                   [from |-> call'.args[1], to |-> call'.self])]_vars
  /\ [](\A r \in DOMAIN heap :
          \A i \in 1..Len(heap[r].config.triggers) :
            /\ heap[r].config.triggers[i].to = r
            /\ heap[r].config.triggers[i].from \in DOMAIN events)

C6_Witness ==
  /\ call.op = "tag"
  /\ Len(heap) = 1
  /\ Len(heap[1].config.triggers) = 1
  /\ heap[heap[1].config.triggers[1].to].config.tags = [k \in {"k"} |-> Str(<<"a">>)]

FluentOps == {"vcs", "code", "description", "env", "tag", "on", "use"}

\* C7: every fluent method returns the resource it was called on, and its
\* effect is in that resource's config.
C7_FluentReturnsSelf ==
  call.op \in FluentOps =>
    /\ ret = Returned("resource", call.self)
    /\ LET config == heap[ret.a].config IN
       CASE call.op = "vcs"         -> config.vcs = call.args[1]
         [] call.op = "code"        -> config.code = call.args[1]
         [] call.op = "description" -> config.description = call.args[1]
         [] call.op = "env"         -> /\ call.args[1] \in DOMAIN config.environment
                                       /\ config.environment[call.args[1]] = call.args[2]
         [] call.op = "tag"         -> /\ call.args[1] \in DOMAIN config.tags
                                       /\ config.tags[call.args[1]] = call.args[2]
         [] call.op = "on"          -> /\ config.triggers # <<>>
                                       /\ Last(config.triggers).from = call.args[1]
         [] call.op = "use"         -> /\ config.references # <<>>
                                       /\ Last(config.references).to = call.args[1]

C7_Witness ==
  /\ call.op = "env"
  /\ ret = Returned("resource", 1)
  /\ calls = 3
  /\ heap[1].config.tags = [k \in {"k"} |-> Str(<<"b">>)]
  /\ heap[1].config.environment = [k \in {"k"} |-> Str(<<"a">>)]

IdentityPaths == {"meta", "meta.id", "meta.type", "config.id"}

C9_InstanceIdsDistinct ==
  \A r1 \in DOMAIN heap, r2 \in DOMAIN heap :
    r1 # r2 => heap[r1].meta.id # heap[r2].meta.id

C9_Witness ==
  /\ Len(heap) = 3
  /\ heap[1].config.id = heap[2].config.id
  /\ heap[1].config.runtime = heap[2].config.runtime
  /\ heap[3].config.id # heap[1].config.id

SetterOps == {"vcs", "code", "description", "env", "tag"}

\* C10: a resource's triggers and references only grow at the end: each
\* list before a call is a prefix of the list after it, only `on` called
\* on the resource lengthens its triggers, only `use` called on it
\* lengthens its references, and vcs, code, description, env and tag leave
\* every list as it was.
C10_ConnectionsAppendOnly ==
  [][\A r \in DOMAIN heap :
       /\ IsPrefix(heap[r].config.triggers, heap'[r].config.triggers)
       /\ IsPrefix(heap[r].config.references, heap'[r].config.references)
       /\ heap'[r].config.triggers # heap[r].config.triggers
            => Did("on") /\ call'.self = r
       /\ heap'[r].config.references # heap[r].config.references
            => Did("use") /\ call'.self = r
       /\ call'.op \in SetterOps
            => /\ heap'[r].config.triggers = heap[r].config.triggers
               /\ heap'[r].config.references = heap[r].config.references]_vars

C10_Witness ==
  /\ call.op = "description"
  /\ Len(heap[call.self].config.references) = 2
  /\ heap[call.self].config.references[1] # heap[call.self].config.references[2]

====
